---------------------------- MODULE Spec2Model ----------------------------
(***************************************************************************)
(* Model of pcie-tlp-cli (src/pcie-tlp-cli/pcie-tlp-cli.go): the command   *)
(* line front end that encodes and decodes PCI Express Transaction Layer   *)
(* Packets through the pcie package.  The front end (argument handling,    *)
(* the two dispatch switches, try_decode, the TlpType table) is modelled   *)
(* from its source.  The pcie package is imported, not part of the         *)
(* sources; its codec is modelled from the specification (sections 3, 4    *)
(* and 7) and every such definition is marked "spec-modelled" below.       *)
(*                                                                         *)
(* Text is a sequence of one-character strings, a byte slice a sequence of *)
(* 0..255, a 64-bit address a sequence of 8 bytes (most significant        *)
(* first), and a uint32 a pair of 16-bit halves, so that no value leaves   *)
(* the range of the model checker's integers.                              *)
(***************************************************************************)
EXTENDS Integers, Sequences, FiniteSets, TLC

(***************************************************************************)
(* Integer and bit helpers (Go's <<, |, uint8(), uint32()).               *)
(***************************************************************************)
Shl(a, n) == a * (2 ^ n)

RECURSIVE BitOr(_, _)
BitOr(a, b) ==
    IF a = 0 THEN b
    ELSE IF b = 0 THEN a
    ELSE (IF a % 2 = 1 \/ b % 2 = 1 THEN 1 ELSE 0) + 2 * BitOr(a \div 2, b \div 2)

uint8(n) == n % 256

uint32(n) == [hi |-> (n \div 65536) % 65536, lo |-> n % 65536]

SetMin(S) == CHOOSE x \in S : \A y \in S : x <= y

CeilDiv4(n) == (n + 3) \div 4

(***************************************************************************)
(* Format and TlpType constants, lines 14-74.                              *)
(***************************************************************************)
fmt3DWNoData == 0
fmt4DWNoData == 1
fmt3DWWithData == 2
fmt4DWWithData == 3
fmtTlpPrefix == 4

TlpType(v) == uint8(v)

MRd3 == TlpType(BitOr(Shl(fmt3DWNoData, 5), 0))
\* Fault variant of MRd4: the 3-dword format bits.
MRd4_As3DW == TlpType(BitOr(Shl(fmt3DWNoData, 5), 0))
MRd4 == TlpType(BitOr(Shl(fmt4DWNoData, 5), 0))
MRdLk3 == TlpType(BitOr(Shl(fmt3DWNoData, 5), 1))
MRdLk4 == TlpType(BitOr(Shl(fmt4DWNoData, 5), 1))
MWr3 == TlpType(BitOr(Shl(fmt3DWWithData, 5), 0))
\* Fault variant of MWr4: the no-data format bits.
MWr4_WithoutData == TlpType(BitOr(Shl(fmt4DWNoData, 5), 0))
MWr4 == TlpType(BitOr(Shl(fmt4DWWithData, 5), 0))
IORdT == TlpType(BitOr(Shl(fmt3DWNoData, 5), 2))
IOWrtT == TlpType(BitOr(Shl(fmt3DWWithData, 5), 2))
CfgRd0 == TlpType(BitOr(Shl(fmt3DWNoData, 5), 4))
CfgWr0 == TlpType(BitOr(Shl(fmt3DWWithData, 5), 4))
CfgRd1 == TlpType(BitOr(Shl(fmt3DWNoData, 5), 5))
CfgWr1 == TlpType(BitOr(Shl(fmt3DWWithData, 5), 5))
CplE == TlpType(BitOr(Shl(fmt3DWNoData, 5), 10))
\* Fault variant of CplD: the no-data format bits.
CplD_WithoutData == TlpType(BitOr(Shl(fmt3DWNoData, 5), 10))
CplD == TlpType(BitOr(Shl(fmt3DWWithData, 5), 10))
CplLk == TlpType(BitOr(Shl(fmt3DWNoData, 5), 11))
CplLkD == TlpType(BitOr(Shl(fmt3DWWithData, 5), 11))
MRIOV == TlpType(BitOr(Shl(fmtTlpPrefix, 5), 0))
LocalVendPrefix == TlpType(BitOr(Shl(fmtTlpPrefix, 5), 14))
ExtTPH == TlpType(BitOr(Shl(fmtTlpPrefix, 5), 16))
PASID == TlpType(BitOr(Shl(fmtTlpPrefix, 5), 17))
EndEndVendPrefix == TlpType(BitOr(Shl(fmtTlpPrefix, 5), 30))

(* What the comment above each constant documents about it: the header     *)
(* width in dwords (0 where the comment names none) and whether the        *)
(* request carries data ("with", "without", or "" where the comment is     *)
(* silent).  Reads carry no data, writes do.                               *)
TlpTypeDoc ==
    << [name |-> "MRd3",   value |-> MRd3,   dwords |-> 3, data |-> "without"],
       [name |-> "MRd4",   value |-> MRd4,   dwords |-> 4, data |-> "without"],
       [name |-> "MRdLk3", value |-> MRdLk3, dwords |-> 3, data |-> "without"],
       [name |-> "MRdLk4", value |-> MRdLk4, dwords |-> 4, data |-> "without"],
       [name |-> "MWr3",   value |-> MWr3,   dwords |-> 3, data |-> "with"],
       [name |-> "MWr4",   value |-> MWr4,   dwords |-> 4, data |-> "with"],
       [name |-> "IORdT",  value |-> IORdT,  dwords |-> 0, data |-> "without"],
       [name |-> "IOWrtT", value |-> IOWrtT, dwords |-> 0, data |-> "with"],
       [name |-> "CfgRd0", value |-> CfgRd0, dwords |-> 0, data |-> "without"],
       [name |-> "CfgWr0", value |-> CfgWr0, dwords |-> 0, data |-> "with"],
       [name |-> "CfgRd1", value |-> CfgRd1, dwords |-> 0, data |-> "without"],
       [name |-> "CfgWr1", value |-> CfgWr1, dwords |-> 0, data |-> "with"],
       [name |-> "CplE",   value |-> CplE,   dwords |-> 0, data |-> "without"],
       [name |-> "CplD",   value |-> CplD,   dwords |-> 0, data |-> "with"],
       [name |-> "CplLk",  value |-> CplLk,  dwords |-> 0, data |-> "without"],
       [name |-> "CplLkD", value |-> CplLkD, dwords |-> 0, data |-> "with"],
       [name |-> "MRIOV",  value |-> MRIOV,  dwords |-> 0, data |-> ""],
       [name |-> "LocalVendPrefix", value |-> LocalVendPrefix, dwords |-> 0, data |-> ""],
       [name |-> "ExtTPH", value |-> ExtTPH, dwords |-> 0, data |-> ""],
       [name |-> "PASID",  value |-> PASID,  dwords |-> 0, data |-> ""],
       [name |-> "EndEndVendPrefix", value |-> EndEndVendPrefix, dwords |-> 0, data |-> ""] >>

(***************************************************************************)
(* Text conversions used by main: encoding/hex, strings, strconv, fmt.     *)
(***************************************************************************)
HexDigits ==
    << "0", "1", "2", "3", "4", "5", "6", "7", "8", "9", "a", "b", "c", "d", "e", "f" >>

HexVal(c) ==
    CASE c = "0" -> 0 [] c = "1" -> 1 [] c = "2" -> 2 [] c = "3" -> 3
      [] c = "4" -> 4 [] c = "5" -> 5 [] c = "6" -> 6 [] c = "7" -> 7
      [] c = "8" -> 8 [] c = "9" -> 9
      [] c \in {"a", "A"} -> 10 [] c \in {"b", "B"} -> 11
      [] c \in {"c", "C"} -> 12 [] c \in {"d", "D"} -> 13
      [] c \in {"e", "E"} -> 14 [] c \in {"f", "F"} -> 15
      [] OTHER -> -1

\* strings.ReplaceAll(s, " ", "")
RemoveSpaces(s) == SelectSeq(s, LAMBDA c : c # " ")

\* hex.DecodeString: pairs of digits; the bytes before the first bad pair are
\* returned with InvalidByteError, an odd tail gives ErrLength.
DecodeString(s) ==
    LET n == Len(s) \div 2
        bad == {i \in 1..n : HexVal(s[2 * i - 1]) < 0 \/ HexVal(s[2 * i]) < 0}
        upto == IF bad = {} THEN n ELSE SetMin(bad) - 1
        bytes == [i \in 1..upto |-> HexVal(s[2 * i - 1]) * 16 + HexVal(s[2 * i])]
    IN  IF bad # {} THEN [err |-> "InvalidByteError", bytes |-> bytes]
        ELSE IF Len(s) % 2 = 1
             THEN [err |-> IF HexVal(s[Len(s)]) < 0 THEN "InvalidByteError" ELSE "ErrLength",
                   bytes |-> bytes]
        ELSE [err |-> "", bytes |-> bytes]

\* hex.EncodeToString: two lower-case digits per byte.
EncodeToString(b) ==
    [i \in 1..(2 * Len(b)) |->
        IF i % 2 = 1 THEN HexDigits[(b[(i + 1) \div 2] \div 16) + 1]
                     ELSE HexDigits[(b[i \div 2] % 16) + 1]]

\* fmt's %x verb on an integer: lower-case digits, no leading zero.
RECURSIVE FormatHex(_)
FormatHex(v) ==
    IF v < 16 THEN << HexDigits[v + 1] >>
    ELSE Append(FormatHex(v \div 16), HexDigits[(v % 16) + 1])

\* fmt's %02x and %04x verbs: FormatHex left-padded with zeros to the width.
FormatHexPadded(v, width) ==
    LET d == FormatHex(v)
    IN  IF Len(d) >= width THEN d
        ELSE [i \in 1..(width - Len(d)) |-> "0"] \o d

ZeroAddr == << 0, 0, 0, 0, 0, 0, 0, 0 >>

\* strconv.ParseUint(s, 16, 64): one or more hexadecimal digits, no prefix,
\* no sign; more than 16 significant digits is out of range.
ParseUint(s) ==
    LET ok == Len(s) >= 1 /\ \A i \in 1..Len(s) : HexVal(s[i]) >= 0
        nz == {i \in 1..Len(s) : HexVal(s[i]) > 0}
        sig == IF nz = {} THEN << >> ELSE SubSeq(s, SetMin(nz), Len(s))
        nib == [i \in 1..16 |->
                   IF i <= 16 - Len(sig) THEN 0 ELSE HexVal(sig[i - (16 - Len(sig))])]
    IN  IF ~ok THEN [err |-> "ErrSyntax", val |-> ZeroAddr]
        ELSE IF Len(sig) > 16 THEN [err |-> "ErrRange", val |-> [i \in 1..8 |-> 255]]
        ELSE [err |-> "", val |-> [i \in 1..8 |-> nib[2 * i - 1] * 16 + nib[2 * i]]]

(***************************************************************************)
(* pcie.DeviceID (spec-modelled, sections 3 and 4.2): a bus:device.function *)
(* triple and its 16-bit packed form bus:8 | device:5 | function:3.        *)
(***************************************************************************)
BusMax == 255
DeviceMax == 31
FunctionMax == 7

DeviceIDs ==
    [bus : 0..BusMax, device : 0..DeviceMax, function : 0..FunctionMax]

\* Longest bus, device or function component FromString is given here.
MaxComponentDigits == 4

ZeroDeviceID == [bus |-> 0, device |-> 0, function |-> 0]

\* Fault variant of pack: device and function fields swapped.
pack_swapped(d) == BitOr(BitOr(Shl(d.bus, 8), Shl(d.function, 5)), d.device)
pack(d) == BitOr(BitOr(Shl(d.bus, 8), Shl(d.device, 3)), d.function)

unpack(v) ==
    [bus |-> (v \div 256) % 256, device |-> (v \div 8) % 32, function |-> v % 8]

RECURSIVE HexNum(_)
HexNum(s) ==
    IF s = << >> THEN 0
    ELSE HexNum(SubSeq(s, 1, Len(s) - 1)) * 16 + HexVal(s[Len(s)])

\* parse("bus:device.function"): three hexadecimal components, each within
\* its range; anything else is InvalidDeviceIDFormat.
FromString(s) ==
    LET colons == {i \in 1..Len(s) : s[i] = ":"}
        dots == {i \in 1..Len(s) : s[i] = "."}
        shaped == Cardinality(colons) = 1 /\ Cardinality(dots) = 1
                  /\ SetMin(colons) < SetMin(dots)
        c == SetMin(colons)
        d == SetMin(dots)
        b == SubSeq(s, 1, c - 1)
        v == SubSeq(s, c + 1, d - 1)
        f == SubSeq(s, d + 1, Len(s))
        digits(p) == Len(p) \in 1..MaxComponentDigits /\ \A i \in 1..Len(p) : HexVal(p[i]) >= 0
    IN  IF shaped /\ digits(b) /\ digits(v) /\ digits(f)
           /\ HexNum(b) <= BusMax /\ HexNum(v) <= DeviceMax /\ HexNum(f) <= FunctionMax
        THEN [err |-> "",
              did |-> [bus |-> HexNum(b), device |-> HexNum(v), function |-> HexNum(f)]]
        ELSE [err |-> "InvalidDeviceIDFormat", did |-> ZeroDeviceID]

(***************************************************************************)
(* The TLP codec of the pcie package (spec-modelled, sections 3, 4, 6, 7). *)
(***************************************************************************)
\* classify (section 4.1): format in bits 7-5, type in bits 4-0.
classify(b) ==
    [format |-> b \div 32,
     type |-> b % 32,
     hasPayload |-> (b \div 32) \in {2, 3},
     addrWidth |-> IF (b \div 32) \in {1, 3} THEN 4 ELSE 3]

MaxTransferBytes == 4096

NilPacket ==
    [kind |-> "", fmtType |-> 0, b1 |-> 0, b2hi |-> 0, length |-> 0, reqID |-> 0,
     tag |-> 0, be |-> 0, addr |-> ZeroAddr, data |-> << >>,
     cplID |-> 0, status |-> 0, lowbits |-> 0, byteCount |-> 0, lowerAddr |-> 0]

\* Discriminator of a memory request: 4-dword format when the address does
\* not fit in 32 bits, with-data format for a write.
ReqFmtType(addr, withData) ==
    LET is64 == \E i \in 1..4 : addr[i] # 0
    IN  BitOr(Shl(BitOr(IF withData THEN 2 ELSE 0, IF is64 THEN 1 ELSE 0), 5), 0)

\* First and last dword byte enables of a transfer of n bytes: the first
\* covers the low bytes of the first dword, the last the bytes used in the
\* last dword, a single-dword transfer uses only the first.
ByteEnables(n) ==
    LET first == IF n >= 4 THEN 15 ELSE (2 ^ n) - 1
        last == IF CeilDiv4(n) = 1 THEN 0
                ELSE IF n % 4 = 0 THEN 15 ELSE (2 ^ (n % 4)) - 1
    IN  BitOr(Shl(last, 4), first)

\* The two low address bits are not part of the header.
DwordAligned(a) == SubSeq(a, 1, 7) \o << (a[8] \div 4) * 4 >>

\* NewMRd(reqID, tag, addr, length): length is the requested byte count.
NewMRd(reqID, t, a, len) ==
    IF len.hi # 0 \/ len.lo = 0 \/ len.lo > MaxTransferBytes
    THEN [err |-> "InvalidLength", tlp |-> NilPacket]
    ELSE [err |-> "",
          tlp |-> [NilPacket EXCEPT !.kind = "MRd",
                                    !.fmtType = ReqFmtType(a, FALSE),
                                    !.length = CeilDiv4(len.lo),
                                    !.reqID = pack(reqID),
                                    !.tag = t,
                                    !.be = ByteEnables(len.lo),
                                    !.addr = DwordAligned(a)]]

\* NewMWr(reqID, addr, data): the length is the payload size; the request
\* takes no tag and the packet carries tag 0.
NewMWr(reqID, a, d) ==
    IF Len(d) = 0 \/ Len(d) > MaxTransferBytes
    THEN [err |-> "InvalidLength", tlp |-> NilPacket]
    ELSE [err |-> "",
          tlp |-> [NilPacket EXCEPT !.kind = "MWr",
                                    !.fmtType = ReqFmtType(a, TRUE),
                                    !.length = CeilDiv4(Len(d)),
                                    !.reqID = pack(reqID),
                                    !.tag = 0,
                                    !.be = ByteEnables(Len(d)),
                                    !.addr = DwordAligned(a),
                                    !.data = d]]

\* ToBytes: header dwords, then the address (requests), then the payload.
ToBytes(p) ==
    LET lenField == p.length % 1024
        dw0 == << p.fmtType, p.b1, p.b2hi * 4 + lenField \div 256, lenField % 256 >>
        id == << p.reqID \div 256, p.reqID % 256, p.tag >>
        address == IF classify(p.fmtType).addrWidth = 4 THEN p.addr
                   ELSE SubSeq(p.addr, 5, 8)
    IN  IF p.kind = "Cpl"
        THEN dw0 \o << p.cplID \div 256, p.cplID % 256,
                       p.status * 32 + p.lowbits * 16 + p.byteCount \div 256,
                       p.byteCount % 256 >>
                 \o id \o << p.lowerAddr >> \o p.data
        ELSE dw0 \o id \o << p.be >> \o address \o p.data

\* Fields of the first header dword, common to every variant.
HeaderFields(b) ==
    [NilPacket EXCEPT !.fmtType = b[1],
                      !.b1 = b[2],
                      !.b2hi = b[3] \div 4,
                      !.length = IF (b[3] % 4) * 256 + b[4] = 0 THEN 1024
                                 ELSE (b[3] % 4) * 256 + b[4]]

\* Decoder of a memory request of the wanted kind (read: no data, write:
\* with data).
MemReqFromBytes(b, withData) ==
    LET c == classify(b[1])
        hdr == 4 * c.addrWidth
        h == HeaderFields(b)
        a == IF c.addrWidth = 4 THEN SubSeq(b, 9, 16)
             ELSE << 0, 0, 0, 0 >> \o SubSeq(b, 9, 12)
        payload == SubSeq(b, hdr + 1, Len(b))
        fail(e) == [err |-> e, tlp |-> NilPacket]
    IN  IF Len(b) < 4 THEN fail("MalformedHeader")
        ELSE IF c.type # 0 \/ c.format \notin {0, 1, 2, 3} \/ c.hasPayload # withData
             THEN fail("UnsupportedType")
        ELSE IF Len(b) < hdr THEN fail("TruncatedBuffer")
        ELSE IF a[8] % 4 # 0 THEN fail("MalformedHeader")
        ELSE IF c.addrWidth = 4 /\ \A i \in 1..4 : a[i] = 0 THEN fail("InvalidAddress")
        ELSE IF CeilDiv4(Len(payload)) < (IF withData THEN h.length ELSE 0)
             THEN fail("TruncatedBuffer")
        ELSE IF CeilDiv4(Len(payload)) > (IF withData THEN h.length ELSE 0)
             THEN fail("LengthMismatch")
        ELSE [err |-> "",
              tlp |-> [h EXCEPT !.kind = IF withData THEN "MWr" ELSE "MRd",
                                !.reqID = b[5] * 256 + b[6],
                                !.tag = b[7],
                                !.be = b[8],
                                !.addr = a,
                                !.data = payload]]

NewMRdFromBytes(b) == MemReqFromBytes(b, FALSE)

NewMWrFromBytes(b) == MemReqFromBytes(b, TRUE)

CompletionStatuses == {0, 1, 2, 4}

NewCplFromBytes(b) ==
    LET c == classify(b[1])
        h == HeaderFields(b)
        payload == SubSeq(b, 13, Len(b))
        count == IF (b[7] % 16) * 256 + b[8] = 0 THEN 4096 ELSE (b[7] % 16) * 256 + b[8]
        fail(e) == [err |-> e, tlp |-> NilPacket]
    IN  IF Len(b) < 4 THEN fail("MalformedHeader")
        ELSE IF c.type \notin {10, 11} \/ c.format \notin {0, 2} THEN fail("UnsupportedType")
        ELSE IF Len(b) < 12 THEN fail("TruncatedBuffer")
        ELSE IF (b[7] \div 32) \notin CompletionStatuses THEN fail("InvalidCompletionStatus")
        ELSE IF CeilDiv4(Len(payload)) < (IF c.hasPayload THEN h.length ELSE 0)
             THEN fail("TruncatedBuffer")
        ELSE IF CeilDiv4(Len(payload)) > (IF c.hasPayload THEN h.length ELSE 0)
                \/ (c.hasPayload /\ CeilDiv4(count) < h.length)
             THEN fail("LengthMismatch")
        ELSE [err |-> "",
              tlp |-> [h EXCEPT !.kind = "Cpl",
                                !.cplID = b[5] * 256 + b[6],
                                !.status = b[7] \div 32,
                                !.lowbits = (b[7] \div 16) % 2,
                                !.byteCount = (b[7] % 16) * 256 + b[8],
                                !.reqID = b[9] * 256 + b[10],
                                !.tag = b[11],
                                !.lowerAddr = b[12],
                                !.data = payload]]

(***************************************************************************)
(* Command lines explored: the README's examples, the specification's      *)
(* scenarios, and malformed variants of them.  An absent string flag is    *)
(* the empty string, an absent integer flag is 0.                          *)
(***************************************************************************)
Absent ==
    <<  >>

\* README, memory read capture: 4-dword read of 8 bytes, tag 0x89
BytesMRdCapture ==
    << "2", "0", "0", "0", "0", "0", "0", "2", "0", "3", "2", "4", "8", "9", "f", "f", "1", "8", "a", "a", "f", "f", "e", "e", "d", "d", "c", "c", "b", "b", "a", "8" >>

\* the same capture written with spaces, as in the help text of --bytes
BytesMRdScenario ==
    << "2", "0", " ", "0", "0", " ", "0", "0", " ", "0", "2", " ", "0", "3", " ", "2", "4", " ", "8", "9", " ", "f", "f", " ", "1", "8", " ", "a", "a", " ", "f", "f", " ", "e", "e", " ", "d", "d", " ", "c", "c", " ", "b", "b", " ", "a", "8" >>

\* README, memory write capture: 4-dword write of 8 bytes
BytesMWrCapture ==
    << "6", "0", "0", "0", "0", "0", "0", "2", "0", "3", "2", "4", "0", "0", "f", "f", "1", "8", "a", "a", "f", "f", "e", "e", "d", "d", "c", "c", "b", "b", "a", "8", "c", "c", "c", "c", "c", "c", "c", "c", "f", "f", "f", "f", "f", "f", "f", "f" >>

\* a 3-dword read of one dword
BytesMRd3 ==
    << "0", "0", "0", "0", "0", "0", "0", "1", "0", "3", "2", "4", "0", "7", "0", "f", "d", "d", "c", "c", "b", "b", "a", "8" >>

\* a completion with one dword of data, upper-case digits
BytesCplD ==
    << "4", "a", "0", "0", "0", "0", "0", "1", "0", "1", "0", "0", "0", "0", "0", "4", "0", "3", "2", "4", "8", "9", "a", "8", "D", "E", "A", "D", "B", "E", "E", "F" >>

\* a completion whose status code 7 is reserved
BytesCplBadStatus ==
    << "0", "a", "0", "0", "0", "0", "0", "0", "0", "1", "0", "0", "e", "0", "0", "4", "0", "3", "2", "4", "8", "9", "a", "8" >>

\* a type 0 configuration write
BytesCfgWr0 ==
    << "4", "4", "0", "0", "0", "0", "0", "1", "0", "3", "2", "4", "0", "0", "0", "f", "0", "1", "0", "0", "0", "0", "1", "0", "0", "0", "0", "0", "0", "0", "0", "1" >>

\* the write capture with its last dword missing
BytesMWrShort ==
    << "6", "0", "0", "0", "0", "0", "0", "2", "0", "3", "2", "4", "0", "0", "f", "f", "1", "8", "a", "a", "f", "f", "e", "e", "d", "d", "c", "c", "b", "b", "a", "8", "c", "c", "c", "c", "c", "c", "c", "c" >>

\* an odd number of digits
BytesOddLength ==
    << "2", "0", "0" >>

BytesNotHex ==
    << "2", "g" >>

\* README, --data of the MEMWR example
DataScenario ==
    << "c", "c", " ", "c", "c", " ", "c", "c", " ", "c", "c", " ", "f", "f", " ", "f", "f", " ", "f", "f", " ", "f", "f" >>

DataOneDword ==
    << "d", "e", "a", "d", "b", "e", "e", "f" >>

DataNotHex ==
    << "c", "c", " ", "c" >>

\* README, --did of both encode examples
DidScenario ==
    << "0", "3", ":", "0", "4", ".", "4" >>

DidMax ==
    << "f", "f", ":", "1", "f", ".", "7" >>

\* the form the help text of --did describes
DidHelpForm ==
    << "0", "3", ":", "0", "4", ":", "4" >>

\* device 0x20 is out of range
DidDeviceRange ==
    << "0", "3", ":", "2", "0", ".", "4" >>

\* README, --addr of both encode examples
AddrScenario ==
    << "1", "8", "a", "a", "f", "f", "e", "e", "d", "d", "c", "c", "b", "b", "a", "a" >>

Addr32 ==
    << "d", "d", "c", "c", "b", "b", "a", "8" >>

AddrPrefixed ==
    << "0", "x", "1", "8", "a", "a" >>

\* 17 significant digits
AddrTooWide ==
    << "1", "1", "8", "a", "a", "f", "f", "e", "e", "d", "d", "c", "c", "b", "b", "a", "a" >>

all_tlp_types == << "MEMRD", "MEMWR", "CPL", "CFGWR" >>

\* Values the --type selector yields: one of its options, or "" when absent.
TypeChoices == {""} \cup {all_tlp_types[i] : i \in 1..Len(all_tlp_types)}

BytesChoices ==
    {Absent, BytesMRdCapture, BytesMRdScenario, BytesMWrCapture, BytesMRd3, BytesCplD,
     BytesCplBadStatus, BytesCfgWr0, BytesMWrShort, BytesOddLength, BytesNotHex}

DataChoices == {Absent, DataScenario, DataOneDword, DataNotHex}

DidChoices == {Absent, DidScenario, DidMax, DidHelpForm, DidDeviceRange}

AddrChoices == {Absent, AddrScenario, Addr32, AddrPrefixed, AddrTooWide}

\* --tag: the README's 137, and 393 = 137 + 256, which uint8() wraps.
TagChoices == {0, 137, 393}

\* --len: the README's 8, an unaligned count, 0 and a negative count.
LenChoices == {0, 5, 8, -1}

(***************************************************************************)
(* State.                                                                  *)
(***************************************************************************)
VARIABLES
    encode, printtypes, tlp_raw_bytes_str, data_raw_bytes_str, tlp_type,
    device_id_str, tag, addr_str, length,  \* the parsed flags (lines 105-117)
    pc,              \* position in main / try_decode
    tlp_raw_bytes,   \* line 132
    data_raw_bytes,  \* line 133
    addr,            \* line 135
    did,             \* line 136
    types,           \* try_decode's candidate list
    idx,             \* try_decode's position in the candidate list
    errs,            \* try_decode's accumulated errors (line 211)
    tlp,             \* the packet the last successful constructor returned
    calls,           \* the pcie constructors called so far, with their arguments
    output,          \* the lines written to standard output
    panicmsg,        \* the value main panicked with, "" if none
    law              \* the Device ID round trip under test (SpecDeviceID only)

flags ==
    << encode, printtypes, tlp_raw_bytes_str, data_raw_bytes_str, tlp_type,
       device_id_str, tag, addr_str, length >>

vars ==
    << encode, printtypes, tlp_raw_bytes_str, data_raw_bytes_str, tlp_type,
       device_id_str, tag, addr_str, length, pc, tlp_raw_bytes, data_raw_bytes,
       addr, did, types, idx, errs, tlp, calls, output, panicmsg, law >>

LawOff == [phase |-> "off", x |-> ZeroDeviceID, v |-> 0, y |-> ZeroDeviceID, w |-> 0]

\* The state after parser.Parse succeeded (lines 100-126) and the locals of
\* lines 132-136 hold their zero values.
Init ==
    /\ encode \in BOOLEAN
    /\ printtypes \in BOOLEAN
    /\ tlp_type \in TypeChoices
    /\ IF encode
       THEN /\ tlp_raw_bytes_str = Absent
            /\ data_raw_bytes_str \in DataChoices
            /\ device_id_str \in DidChoices
            /\ tag \in TagChoices
            /\ addr_str \in AddrChoices
            /\ length \in LenChoices
       ELSE /\ tlp_raw_bytes_str \in BytesChoices
            /\ data_raw_bytes_str = Absent
            /\ device_id_str = Absent
            /\ tag = 0
            /\ addr_str = Absent
            /\ length = 0
    /\ pc = "start"
    /\ tlp_raw_bytes = << >>
    /\ data_raw_bytes = << >>
    /\ addr = ZeroAddr
    /\ did = ZeroDeviceID
    /\ types = << >>
    /\ idx = 0
    /\ errs = << >>
    /\ tlp = NilPacket
    /\ calls = << >>
    /\ output = << >>
    /\ panicmsg = ""
    /\ law = LawOff

Line(k, l, t) == [kind |-> k, label |-> l, text |-> t]

(***************************************************************************)
(* main, lines 127-130: --printtypes prints the table and returns.         *)
(***************************************************************************)
printfmttypes ==
    [i \in 1..Len(TlpTypeDoc) |->
        Line("fmttype", TlpTypeDoc[i].name, << " " >> \o FormatHex(TlpTypeDoc[i].value))]

PrintTypes ==
    /\ pc = "start"
    /\ printtypes
    /\ output' = output \o printfmttypes
    /\ pc' = "done"
    /\ UNCHANGED << flags, tlp_raw_bytes, data_raw_bytes, addr, did, types, idx,
                    errs, tlp, calls, panicmsg, law >>

(***************************************************************************)
(* main, lines 139-163: parse the arguments of an encode run.              *)
(***************************************************************************)
\* The MEMRD case (lines 152-160), also reached from MEMWR by fallthrough.
ParseRequestArgs(r, didstr, addrstr) ==
    LET f == FromString(didstr)
        u == ParseUint(addrstr)
    IN  IF f.err # "" THEN [r EXCEPT !.panic = f.err, !.did = f.did]
        ELSE IF u.err # "" THEN [r EXCEPT !.panic = u.err, !.did = f.did, !.addr = u.val]
        ELSE [r EXCEPT !.did = f.did, !.addr = u.val]

\* Fault variant of ParseEncode: the default case of the switch is missing.
ParseEncode_NoDefault(type, datastr, didstr, addrstr) ==
    LET r0 == [panic |-> "", data |-> << >>, did |-> ZeroDeviceID, addr |-> ZeroAddr]
        h == DecodeString(RemoveSpaces(datastr))
    IN  IF type = "MEMWR"
        THEN IF h.err # "" THEN [r0 EXCEPT !.panic = h.err, !.data = h.bytes]
             ELSE ParseRequestArgs([r0 EXCEPT !.data = h.bytes], didstr, addrstr)
        ELSE IF type = "MEMRD" THEN ParseRequestArgs(r0, didstr, addrstr)
        ELSE r0

ParseEncode(type, datastr, didstr, addrstr) ==
    LET r0 == [panic |-> "", data |-> << >>, did |-> ZeroDeviceID, addr |-> ZeroAddr]
        h == DecodeString(RemoveSpaces(datastr))
    IN  IF type = "MEMWR"
        THEN IF h.err # "" THEN [r0 EXCEPT !.panic = h.err, !.data = h.bytes]
             ELSE ParseRequestArgs([r0 EXCEPT !.data = h.bytes], didstr, addrstr)
        ELSE IF type = "MEMRD" THEN ParseRequestArgs(r0, didstr, addrstr)
        ELSE [r0 EXCEPT !.panic = "Unsupported type specified"]

ParseEncodeArgs ==
    /\ pc = "start"
    /\ ~printtypes
    /\ encode
    /\ LET r == ParseEncode(tlp_type, data_raw_bytes_str, device_id_str, addr_str)
       IN  /\ data_raw_bytes' = r.data
           /\ did' = r.did
           /\ addr' = r.addr
           /\ panicmsg' = r.panic
           /\ pc' = IF r.panic # "" THEN "panic" ELSE "parsed"
    /\ UNCHANGED << flags, tlp_raw_bytes, types, idx, errs, tlp, calls, output, law >>

(***************************************************************************)
(* main, lines 164-174: parse the arguments of a decode run.               *)
(***************************************************************************)
ParseDecodeArgs ==
    /\ pc = "start"
    /\ ~printtypes
    /\ ~encode
    /\ LET h == DecodeString(RemoveSpaces(tlp_raw_bytes_str))
       IN  /\ tlp_raw_bytes' = h.bytes
           /\ panicmsg' = h.err
           /\ pc' = IF h.err # "" THEN "panic" ELSE "parsed"
    /\ output' = Append(output, Line("text", "Parsing Decode Args", << >>))
    /\ UNCHANGED << flags, data_raw_bytes, addr, did, types, idx, errs, tlp, calls, law >>

(***************************************************************************)
(* main, lines 176-197: dispatch into the encoders.                        *)
(***************************************************************************)
\* The argument lists of the two constructor calls (lines 180 and 186).
MRdArguments ==
    [reqID |-> did, tag |-> uint8(tag), addr |-> addr, length |-> uint32(length)]

\* Fault variant of MWrArguments: the payload cut to --len bytes.
MWrArguments_LenBytes ==
    [reqID |-> did, addr |-> addr,
     data |-> SubSeq(data_raw_bytes, 1,
                     IF uint32(length).hi = 0 /\ uint32(length).lo < Len(data_raw_bytes)
                     THEN uint32(length).lo ELSE Len(data_raw_bytes))]

MWrArguments ==
    [reqID |-> did, addr |-> addr, data |-> data_raw_bytes]

Panic(msg) ==
    /\ panicmsg' = msg
    /\ pc' = "panic"
    /\ UNCHANGED << tlp, output >>

Encode ==
    /\ pc = "parsed"
    /\ encode
    /\ CASE tlp_type = "MEMRD" ->
              LET a == MRdArguments
                  r == NewMRd(a.reqID, a.tag, a.addr, a.length)
              IN  /\ calls' = Append(calls, [fn |-> "NewMRd", args |-> a])
                  /\ IF r.err # "" THEN Panic(r.err)
                     ELSE /\ tlp' = r.tlp
                          /\ output' = Append(output,
                                 Line("hex", "", EncodeToString(ToBytes(r.tlp))))
                          /\ pc' = "done"
                          /\ UNCHANGED panicmsg
         [] tlp_type = "MEMWR" ->
              LET a == MWrArguments
                  r == NewMWr(a.reqID, a.addr, a.data)
              IN  /\ calls' = Append(calls, [fn |-> "NewMWr", args |-> a])
                  /\ IF r.err # "" THEN Panic(r.err)
                     ELSE /\ tlp' = r.tlp
                          /\ output' = output \o
                                << Line("text", "Did: 0x", FormatHexPadded(pack(did), 4)),
                                   Line("text", "tag: 0x", FormatHexPadded(uint8(tag), 2)),
                                   Line("hex", "", EncodeToString(ToBytes(r.tlp))),
                                   Line("text", "MWr3 as uint8==>", FormatHexPadded(uint8(MWr3), 2)),
                                   Line("text", "MWr4 as uint8==>", FormatHexPadded(uint8(MWr4), 2)) >>
                          /\ pc' = "done"
                          /\ UNCHANGED panicmsg
         [] OTHER -> Panic("Unsupported type specified") /\ UNCHANGED calls
    /\ UNCHANGED << flags, tlp_raw_bytes, data_raw_bytes, addr, did, types, idx, errs, law >>

(***************************************************************************)
(* main, lines 198-207, and try_decode, lines 210-248.                     *)
(***************************************************************************)
\* The call of try_decode: every type when --type is absent, else the one
\* requested; errs starts empty.
Decode ==
    /\ pc = "parsed"
    /\ ~encode
    /\ types' = IF tlp_type = "" THEN all_tlp_types ELSE << tlp_type >>
    /\ errs' = << >>
    /\ idx' = 1
    /\ pc' = "loop"
    /\ UNCHANGED << flags, tlp_raw_bytes, data_raw_bytes, addr, did, tlp, calls,
                    output, panicmsg, law >>

\* Fault variant of TryCase: the return after a successful decode is missing.
TryCase_NoReturn(t, fn, r) ==
    /\ calls' = Append(calls, [fn |-> fn, args |-> [bytes |-> tlp_raw_bytes]])
    /\ IF r.err # ""
       THEN /\ errs' = Append(errs, [label |-> t, err |-> r.err])
            /\ idx' = idx + 1
            /\ UNCHANGED << output, pc, tlp >>
       ELSE /\ output' = Append(output, Line("valid", t, EncodeToString(ToBytes(r.tlp))))
            /\ idx' = idx + 1
            /\ tlp' = r.tlp
            /\ UNCHANGED << errs, pc >>

\* One case of the switch: call the constructor; on error append the
\* labelled error and continue, else print the packet and return.
TryCase(t, fn, r) ==
    /\ calls' = Append(calls, [fn |-> fn, args |-> [bytes |-> tlp_raw_bytes]])
    /\ IF r.err # ""
       THEN /\ errs' = Append(errs, [label |-> t, err |-> r.err])
            /\ idx' = idx + 1
            /\ UNCHANGED << output, pc, tlp >>
       ELSE /\ output' = Append(output, Line("valid", t, EncodeToString(ToBytes(r.tlp))))
            /\ pc' = "done"
            /\ tlp' = r.tlp
            /\ UNCHANGED << errs, idx >>

InLoop(t) == pc = "loop" /\ idx <= Len(types) /\ types[idx] = t

TryMEMRD ==
    /\ InLoop("MEMRD")
    /\ TryCase("MEMRD", "NewMRdFromBytes", NewMRdFromBytes(tlp_raw_bytes))
    /\ UNCHANGED << flags, tlp_raw_bytes, data_raw_bytes, addr, did, types, panicmsg, law >>

TryMEMWR ==
    /\ InLoop("MEMWR")
    /\ TryCase("MEMWR", "NewMWrFromBytes", NewMWrFromBytes(tlp_raw_bytes))
    /\ UNCHANGED << flags, tlp_raw_bytes, data_raw_bytes, addr, did, types, panicmsg, law >>

TryCPL ==
    /\ InLoop("CPL")
    /\ TryCase("CPL", "NewCplFromBytes", NewCplFromBytes(tlp_raw_bytes))
    /\ UNCHANGED << flags, tlp_raw_bytes, data_raw_bytes, addr, did, types, panicmsg, law >>

\* A type with no case in the switch: the loop moves on to the next one.
NoCase ==
    /\ pc = "loop"
    /\ idx <= Len(types)
    /\ types[idx] \notin {"MEMRD", "MEMWR", "CPL"}
    /\ idx' = idx + 1
    /\ UNCHANGED << flags, pc, tlp_raw_bytes, data_raw_bytes, addr, did, types, errs,
                    tlp, calls, output, panicmsg, law >>

\* Lines 244-246: after the loop, print every accumulated error.
PrintErrs ==
    /\ pc = "loop"
    /\ idx > Len(types)
    /\ output' = output \o [i \in 1..Len(errs) |-> Line("error", errs[i].label, << errs[i].err >>)]
    /\ pc' = "done"
    /\ UNCHANGED << flags, tlp_raw_bytes, data_raw_bytes, addr, did, types, idx, errs,
                    tlp, calls, panicmsg, law >>

Next ==
    \/ PrintTypes
    \/ ParseEncodeArgs
    \/ ParseDecodeArgs
    \/ Encode
    \/ Decode
    \/ TryMEMRD
    \/ TryMEMWR
    \/ TryCPL
    \/ NoCase
    \/ PrintErrs

Spec == Init /\ [][Next]_vars

(***************************************************************************)
(* The Device ID round trips (spec-modelled, section 4.2): pack then       *)
(* unpack from every triple, unpack then pack from every 16-bit value.     *)
(***************************************************************************)
InitDeviceID ==
    /\ encode = FALSE
    /\ printtypes = FALSE
    /\ tlp_type = ""
    /\ tlp_raw_bytes_str = Absent
    /\ data_raw_bytes_str = Absent
    /\ device_id_str = Absent
    /\ tag = 0
    /\ addr_str = Absent
    /\ length = 0
    /\ pc = "off"
    /\ tlp_raw_bytes = << >>
    /\ data_raw_bytes = << >>
    /\ addr = ZeroAddr
    /\ did = ZeroDeviceID
    /\ types = << >>
    /\ idx = 0
    /\ errs = << >>
    /\ tlp = NilPacket
    /\ calls = << >>
    /\ output = << >>
    /\ panicmsg = ""
    /\ \/ \E d \in DeviceIDs : law = [LawOff EXCEPT !.phase = "triple", !.x = d]
       \/ \E n \in 0..65535 : law = [LawOff EXCEPT !.phase = "value", !.v = n]

main_vars ==
    << encode, printtypes, tlp_raw_bytes_str, data_raw_bytes_str, tlp_type,
       device_id_str, tag, addr_str, length, pc, tlp_raw_bytes, data_raw_bytes,
       addr, did, types, idx, errs, tlp, calls, output, panicmsg >>

PackTriple ==
    /\ law.phase = "triple"
    /\ law' = [law EXCEPT !.phase = "triple_packed", !.v = pack(law.x)]
    /\ UNCHANGED main_vars

UnpackPacked ==
    /\ law.phase = "triple_packed"
    /\ law' = [law EXCEPT !.phase = "triple_done", !.y = unpack(law.v)]
    /\ UNCHANGED main_vars

UnpackValue ==
    /\ law.phase = "value"
    /\ law' = [law EXCEPT !.phase = "value_unpacked", !.y = unpack(law.v)]
    /\ UNCHANGED main_vars

PackUnpacked ==
    /\ law.phase = "value_unpacked"
    /\ law' = [law EXCEPT !.phase = "value_done", !.w = pack(law.y)]
    /\ UNCHANGED main_vars

NextDeviceID ==
    \/ PackTriple
    \/ UnpackPacked
    \/ UnpackValue
    \/ PackUnpacked

SpecDeviceID == InitDeviceID /\ [][NextDeviceID]_vars

(***************************************************************************)
(* Properties.                                                             *)
(***************************************************************************)
ValidLines == SelectSeq(output, LAMBDA l : l.kind = "valid")

ErrorLines == SelectSeq(output, LAMBDA l : l.kind = "error")

HexLines == SelectSeq(output, LAMBDA l : l.kind = "hex")

Labelled(lines, t) == \E i \in 1..Len(lines) : lines[i].label = t

\* The run reached the encode, respectively the decode, branch of main.
EncodeRun == encode /\ ~printtypes

DecodeRun == ~encode /\ ~printtypes

\* C1: when the full candidate list was tried and no candidate decoded the
\* buffer, exactly one error per candidate type is reported, each candidate
\* type with its own labelled failure.
C1_OneErrorPerCandidate ==
    (DecodeRun /\ pc = "done" /\ tlp_type = "" /\ ValidLines = << >>)
        => /\ types = all_tlp_types
           /\ Len(ErrorLines) = Len(types)
           /\ \A i \in 1..Len(types) : Labelled(ErrorLines, types[i])

\* C2: a decode run with a single requested type ends with the packet
\* echoed as valid for that type or with an error naming that type, exactly
\* one of the two.
C2_ValidOrError ==
    (DecodeRun /\ pc = "done" /\ tlp_type # "")
        => (Labelled(ValidLines, tlp_type) # Labelled(ErrorLines, tlp_type))

\* C3: on encode the tag the caller supplied (0..255) is among the arguments
\* handed to the encoder and is the tag of the packet produced, for MEMRD and
\* for MEMWR.
C3_TagPassThrough ==
    (EncodeRun /\ pc = "done" /\ tag \in 0..255)
        => /\ "tag" \in DOMAIN calls[Len(calls)].args
           /\ calls[Len(calls)].args.tag = tag
           /\ tlp.tag = tag

\* C4: every TlpType constant printed by --printtypes is (format << 5) | type
\* with the format, one of the five defined, in bits 7-5 and the type in bits
\* 4-0; a payload follows iff the format is 3DW- or 4DW-with-data and the
\* header is 4 dwords iff the format is 4DW-no-data or 4DW-with-data, in
\* agreement with what the constant is documented to be.
C4_FormatTypeLayout ==
    \A i \in 1..Len(output) :
        output[i].kind = "fmttype" =>
            \E j \in 1..Len(TlpTypeDoc) :
                LET d == TlpTypeDoc[j]
                    c == classify(d.value)
                IN  /\ d.name = output[i].label
                    /\ output[i].text = << " " >> \o FormatHex(d.value)
                    /\ d.value \in 0..255
                    /\ c.format \in {fmt3DWNoData, fmt4DWNoData, fmt3DWWithData,
                                     fmt4DWWithData, fmtTlpPrefix}
                    /\ c.type \in 0..31
                    /\ d.value = BitOr(Shl(c.format, 5), c.type)
                    /\ c.hasPayload = (c.format \in {fmt3DWWithData, fmt4DWWithData})
                    /\ (c.addrWidth = 4) = (c.format \in {fmt4DWNoData, fmt4DWWithData})
                    /\ (d.data = "with" => c.hasPayload)
                    /\ (d.data = "without" => ~c.hasPayload)
                    /\ (d.dwords = 4 => c.addrWidth = 4)
                    /\ (d.dwords = 3 => c.addrWidth = 3)

C4_TypesPrinted ==
    /\ pc = "done"
    /\ printtypes
    /\ Len(output) = 21
    /\ \E i \in 1..Len(output) :
           output[i] = Line("fmttype", "MWr4", << " ", "6", "0" >>)

\* The README's MEMWR example: payload cc cc cc cc ff ff ff ff, device
\* 03:04.4, tag 137, address 18aaffeeddccbbaa, length 8.
MemWrScenario ==
    /\ EncodeRun
    /\ tlp_type = "MEMWR"
    /\ data_raw_bytes_str = DataScenario
    /\ device_id_str = DidScenario
    /\ tag = 137
    /\ addr_str = AddrScenario
    /\ length = 8

ScenarioPayload == << 204, 204, 204, 204, 255, 255, 255, 255 >>

\* The bytes of the packet as printed.
PrintedPacket == DecodeString(HexLines[1].text).bytes

\* C5 as stated: the packet encoded for the MEMWR example starts with the
\* 3-dword-with-data Memory Write discriminator MWr3 = 0x40 and ends with the
\* 8 payload bytes.
C5_MemWrScenarioIsMWr3 ==
    (MemWrScenario /\ pc = "done")
        => /\ Len(HexLines) = 1
           /\ PrintedPacket[1] = MWr3
           /\ MWr3 = 64
           /\ SubSeq(PrintedPacket, Len(PrintedPacket) - 7, Len(PrintedPacket)) = ScenarioPayload

\* C5 as amended: the packet encoded for the MEMWR example starts with the
\* 4-dword-with-data Memory Write discriminator MWr4 = 0x60, its address
\* needing more than 32 bits, and ends with the 8 payload bytes.
C5_MemWrScenarioIsMWr4 ==
    (MemWrScenario /\ pc = "done")
        => /\ Len(HexLines) = 1
           /\ PrintedPacket[1] = MWr4
           /\ MWr4 = 96
           /\ SubSeq(PrintedPacket, Len(PrintedPacket) - 7, Len(PrintedPacket)) = ScenarioPayload

C5_MemWrScenarioEncoded ==
    /\ MemWrScenario
    /\ pc = "done"
    /\ calls = << [fn |-> "NewMWr", args |-> MWrArguments] >>
    /\ Len(PrintedPacket) = 24

\* The 16 bytes 20 00 00 02 03 24 89 ff 18 aa ff ee dd cc bb a8 decoded as a
\* Memory Read.
MemRdScenario ==
    /\ DecodeRun
    /\ tlp_type = "MEMRD"
    /\ tlp_raw_bytes_str = BytesMRdScenario

\* C6: decoding those 16 bytes as a Memory Read takes byte 0 (0x20) as the
\* 4-dword-no-data Memory Read discriminator MRd4 and yields requester ID
\* 0x0324 (bus 3, device 4, function 4), tag 0x89, address
\* 0x18aaffeeddccbba8 and length 2 dwords.
C6_MemRdScenarioDecoded ==
    (MemRdScenario /\ pc = "done")
        => /\ Len(tlp_raw_bytes) = 16
           /\ tlp_raw_bytes[1] = 32
           /\ tlp_raw_bytes[1] = MRd4
           /\ classify(tlp_raw_bytes[1]).addrWidth = 4
           /\ ~classify(tlp_raw_bytes[1]).hasPayload
           /\ Labelled(ValidLines, "MEMRD")
           /\ tlp.kind = "MRd"
           /\ tlp.reqID = 804
           /\ unpack(tlp.reqID) = [bus |-> 3, device |-> 4, function |-> 4]
           /\ tlp.tag = 137
           /\ tlp.addr = << 24, 170, 255, 238, 221, 204, 187, 168 >>
           /\ tlp.length = 2

C6_MemRdScenarioRun ==
    /\ MemRdScenario
    /\ pc = "done"
    /\ Len(calls) = 1
    /\ calls[1].fn = "NewMRdFromBytes"
    /\ Len(ValidLines) = 1

\* C7: packing is a bijection between the triples (bus 0-255, device 0-31,
\* function 0-7) and the 16-bit values: unpack(pack(x)) = x for every triple,
\* unpack of every 16-bit value is a valid triple, and pack(unpack(v)) = v.
C7_DeviceIDBijection ==
    /\ law.phase \in {"triple_packed", "triple_done"} => law.v \in 0..65535
    /\ law.phase = "triple_done" => law.y = law.x
    /\ law.phase \in {"value_unpacked", "value_done"} => law.y \in DeviceIDs
    /\ law.phase = "value_done" => law.w = law.v

C7_ScenarioRoundTrip ==
    /\ law.phase = "triple_done"
    /\ law.x = [bus |-> 3, device |-> 4, function |-> 4]
    /\ law.v = 804
    /\ law.y = law.x

Candidates == SelectSeq(types, LAMBDA t : t \in {"MEMRD", "MEMWR", "CPL"})

ConstructorOf(t) ==
    CASE t = "MEMRD" -> "NewMRdFromBytes"
      [] t = "MEMWR" -> "NewMWrFromBytes"
      [] t = "CPL" -> "NewCplFromBytes"

Decoded(t) ==
    CASE t = "MEMRD" -> NewMRdFromBytes(tlp_raw_bytes)
      [] t = "MEMWR" -> NewMWrFromBytes(tlp_raw_bytes)
      [] t = "CPL" -> NewCplFromBytes(tlp_raw_bytes)

\* C9: try_decode calls the constructors in the order of the candidates and
\* stops at the first that succeeds: one valid packet is printed, labelled
\* with the type whose constructor accepted it and which was the last one
\* called, every earlier one having failed, and no accumulated error is
\* printed; errors are printed only when every candidate failed.
C9_FirstSuccessWins ==
    DecodeRun =>
        /\ Len(calls) <= Len(Candidates)
        /\ \A i \in 1..Len(calls) : calls[i].fn = ConstructorOf(Candidates[i])
        /\ Len(ValidLines) <= 1
        /\ ValidLines # << >> =>
              /\ pc = "done"
              /\ ValidLines[1].label = Candidates[Len(calls)]
              /\ Decoded(Candidates[Len(calls)]).err = ""
              /\ ValidLines[1].text =
                     EncodeToString(ToBytes(Decoded(Candidates[Len(calls)]).tlp))
              /\ \A i \in 1..(Len(calls) - 1) : Decoded(Candidates[i]).err # ""
              /\ ErrorLines = << >>
        /\ ErrorLines # << >> =>
              /\ pc = "done"
              /\ ValidLines = << >>
              /\ Len(calls) = Len(Candidates)
              /\ \A i \in 1..Len(Candidates) : Decoded(Candidates[i]).err # ""
              /\ Len(ErrorLines) = Len(Candidates)

C9_ThirdCandidateAccepted ==
    /\ DecodeRun
    /\ pc = "done"
    /\ tlp_type = ""
    /\ Len(calls) = 3
    /\ Len(errs) = 2
    /\ ErrorLines = << >>
    /\ Len(ValidLines) = 1
    /\ ValidLines[1].label = "CPL"

\* C10: an encode run with a type other than MEMRD and MEMWR panics with
\* "Unsupported type specified" while parsing its arguments, no encoder called
\* and nothing printed; for MEMRD and MEMWR the payload (MEMWR), the device ID
\* and the address are parsed, in that order, before an encoder is called,
\* and the first parse failure aborts the run with nothing printed.
C10_EncodeArgumentParsing ==
    (EncodeRun /\ pc # "start") =>
        LET h == DecodeString(RemoveSpaces(data_raw_bytes_str))
            f == FromString(device_id_str)
            u == ParseUint(addr_str)
            herr == IF tlp_type = "MEMWR" THEN h.err ELSE ""
            first == IF herr # "" THEN herr ELSE IF f.err # "" THEN f.err ELSE u.err
        IN  /\ tlp_type \notin {"MEMRD", "MEMWR"} =>
                  /\ pc = "panic"
                  /\ panicmsg = "Unsupported type specified"
                  /\ calls = << >>
                  /\ output = << >>
            /\ (tlp_type \in {"MEMRD", "MEMWR"} /\ first # "") =>
                  /\ pc = "panic"
                  /\ panicmsg = first
                  /\ calls = << >>
                  /\ output = << >>
            /\ (tlp_type \in {"MEMRD", "MEMWR"} /\ calls # << >>) =>
                  /\ first = ""
                  /\ did = f.did
                  /\ addr = u.val
                  /\ tlp_type = "MEMWR" => data_raw_bytes = h.bytes

C10_UnsupportedTypePanicked ==
    /\ EncodeRun
    /\ tlp_type = "CPL"
    /\ pc = "panic"
    /\ panicmsg = "Unsupported type specified"
    /\ device_id_str = DidScenario
    /\ addr_str = AddrScenario

=============================================================================
